---- MODULE Spec2Model ----
(***************************************************************************)
(* Model of app/models.py: the SQLAlchemy schema of the exam/course        *)
(* application.  The tables (columns, defaults, unique / not-null /        *)
(* foreign-key / enum declarations) are modelled as the storage layer      *)
(* applies them to INSERT and UPDATE statements; the relationship()        *)
(* declarations are modelled as SQLAlchemy's mapper configuration          *)
(* resolves them.                                                          *)
(***************************************************************************)
EXTENDS Integers, Sequences, FiniteSets, TLC

VARIABLES
    uuidHex,      \* the 32 hex digits of the last uuid.uuid4() value
    lastId,       \* the last value generate_uuid4_last12() returned
    db,           \* the stored rows of every table
    now,          \* what datetime.now() returns
    enforceFK,    \* the storage engine checks foreign keys
    enumChecked,  \* the storage engine checks the Enum column's values
    last,         \* the last statement and what was reported to its caller
    phase,        \* per caller: "idle", "pending" (statement issued), "done"
    req,          \* per caller: the User it is creating
    res,          \* per caller: what its INSERT reported
    concurrent,   \* the callers' creations overlapped in time
    mapper        \* the outcome of configuring the relationship() declarations

----------------------------------------------------------------------------
(* Identifier generation: str(uuid.uuid4())[-12:]                          *)

\* Length of the slice generate_uuid4_last12 keeps, and of User.id.
IdLen == 12

\* Number of hex digits of a 128-bit value.
UuidDigits == 32

\* Largest stride of the digit patterns the random source is drawn from.
MaxStride == 7

HexChars == <<"0", "1", "2", "3", "4", "5", "6", "7",
              "8", "9", "a", "b", "c", "d", "e", "f">>

NoText == << >>

\* uuid.uuid4(): 128 random bits with the version nibble forced to 4 and the
\* two top bits of the variant nibble forced to 10.  The random bits are
\* drawn from the patterns digit(i) = (a + b*i) mod 16.
Uuid4(a, b) ==
    [i \in 1..UuidDigits |->
        IF i = 13 THEN 4
        ELSE IF i = 17 THEN 8 + ((a + b * i) % 4)
        ELSE (a + b * i) % 16]

Uuid4Values == { Uuid4(a, b) : a \in 0..15, b \in 0..MaxStride }

\* '%032x' % int : one lower-case hex character per nibble.
HexText(digits) == [i \in 1..Len(digits) |-> HexChars[digits[i] + 1]]

\* str(UUID): the canonical text hex[:8]-hex[8:12]-hex[12:16]-hex[16:20]-hex[20:].
UuidStr(digits) ==
    LET h == HexText(digits)
    IN  SubSeq(h, 1, 8) \o <<"-">> \o SubSeq(h, 9, 12) \o <<"-">> \o
        SubSeq(h, 13, 16) \o <<"-">> \o SubSeq(h, 17, 20) \o <<"-">> \o
        SubSeq(h, 21, Len(h))

\* Python's s[-n:] : the last n characters, or all of s when it is shorter.
SliceLast(s, n) ==
    IF Len(s) <= n THEN s ELSE SubSeq(s, Len(s) - n + 1, Len(s))

\* Mutant of generate_uuid4_last12: slices the head instead of the tail.
generate_uuid4_first12(digits) == SubSeq(UuidStr(digits), 1, IdLen)

\* generate_uuid4_last12(), as a function of the random value uuid4() drew.
generate_uuid4_last12(digits) == SliceLast(UuidStr(digits), IdLen)

----------------------------------------------------------------------------
(* The schema: one column descriptor per db.Column declaration.            *)
(*   type     the SQLAlchemy column type                                   *)
(*   nullable FALSE for nullable=False and for primary keys                *)
(*   unique   TRUE for unique=True and for primary keys                    *)
(*   default  "" (none), the name of the callable default, "autoincrement" *)
(*            for an Integer primary key, or the scalar default itself     *)
(*   fk       the table db.ForeignKey names ("" for none)                  *)
(* A column value is << >> (NULL) or <<v>>.                                *)

Column(type, nullable, unique, default, fk) ==
    [type |-> type, nullable |-> nullable, unique |-> unique,
     default |-> default, fk |-> fk]

NULL == << >>

\* Mutant of UserColumns: email declared without unique=True.
UserColumnsEmailNotUnique ==
    [id            |-> Column("String", FALSE, TRUE, "generate_uuid4_last12", ""),
     user_name     |-> Column("String", FALSE, TRUE, "", ""),
     first_name    |-> Column("String", FALSE, FALSE, "", ""),
     last_name     |-> Column("String", TRUE, FALSE, "", ""),
     email         |-> Column("String", FALSE, FALSE, "", ""),
     password_hash |-> Column("String", FALSE, FALSE, "", ""),
     role          |-> Column("String", TRUE, FALSE, "", ""),
     last_login    |-> Column("DateTime", TRUE, FALSE, "", ""),
     created_at    |-> Column("DateTime", FALSE, FALSE, "datetime.now", ""),
     updated_at    |-> Column("DateTime", TRUE, FALSE, "", "")]

\* Mutant of UserColumns: user_name declared without unique=True.
UserColumnsNameNotUnique ==
    [id            |-> Column("String", FALSE, TRUE, "generate_uuid4_last12", ""),
     user_name     |-> Column("String", FALSE, FALSE, "", ""),
     first_name    |-> Column("String", FALSE, FALSE, "", ""),
     last_name     |-> Column("String", TRUE, FALSE, "", ""),
     email         |-> Column("String", FALSE, TRUE, "", ""),
     password_hash |-> Column("String", FALSE, FALSE, "", ""),
     role          |-> Column("String", TRUE, FALSE, "", ""),
     last_login    |-> Column("DateTime", TRUE, FALSE, "", ""),
     created_at    |-> Column("DateTime", FALSE, FALSE, "datetime.now", ""),
     updated_at    |-> Column("DateTime", TRUE, FALSE, "", "")]

\* Mutant of UserColumns: id declared neither primary key nor unique.
UserColumnsIdNotUnique ==
    [id            |-> Column("String", FALSE, FALSE, "generate_uuid4_last12", ""),
     user_name     |-> Column("String", FALSE, TRUE, "", ""),
     first_name    |-> Column("String", FALSE, FALSE, "", ""),
     last_name     |-> Column("String", TRUE, FALSE, "", ""),
     email         |-> Column("String", FALSE, TRUE, "", ""),
     password_hash |-> Column("String", FALSE, FALSE, "", ""),
     role          |-> Column("String", TRUE, FALSE, "", ""),
     last_login    |-> Column("DateTime", TRUE, FALSE, "", ""),
     created_at    |-> Column("DateTime", FALSE, FALSE, "datetime.now", ""),
     updated_at    |-> Column("DateTime", TRUE, FALSE, "", "")]

\* class User
UserColumns ==
    [id            |-> Column("String", FALSE, TRUE, "generate_uuid4_last12", ""),
     user_name     |-> Column("String", FALSE, TRUE, "", ""),
     first_name    |-> Column("String", FALSE, FALSE, "", ""),
     last_name     |-> Column("String", TRUE, FALSE, "", ""),
     email         |-> Column("String", FALSE, TRUE, "", ""),
     password_hash |-> Column("String", FALSE, FALSE, "", ""),
     role          |-> Column("String", TRUE, FALSE, "", ""),
     last_login    |-> Column("DateTime", TRUE, FALSE, "", ""),
     created_at    |-> Column("DateTime", FALSE, FALSE, "datetime.now", ""),
     updated_at    |-> Column("DateTime", TRUE, FALSE, "", "")]

\* class Course
CourseColumns ==
    [id          |-> Column("Integer", FALSE, TRUE, "autoincrement", ""),
     course_name |-> Column("String", FALSE, FALSE, "", ""),
     teacher_id  |-> Column("String", TRUE, FALSE, "", "user")]

\* Mutant of EnrollmentColumns: course_id references course.id.
EnrollmentColumnsCourseFk ==
    [id              |-> Column("Integer", FALSE, TRUE, "autoincrement", ""),
     student_id      |-> Column("String", TRUE, FALSE, "", "user"),
     course_id       |-> Column("Integer", TRUE, FALSE, "", "course"),
     status          |-> Column("Enum", FALSE, FALSE, "pending", ""),
     enrollment_date |-> Column("DateTime", TRUE, FALSE, "datetime.now", "")]

\* Mutant of EnrollmentColumns: status defaults to 'enrolled'.
EnrollmentColumnsDefaultEnrolled ==
    [id              |-> Column("Integer", FALSE, TRUE, "autoincrement", ""),
     student_id      |-> Column("String", TRUE, FALSE, "", "user"),
     course_id       |-> Column("Integer", TRUE, FALSE, "", "user"),
     status          |-> Column("Enum", FALSE, FALSE, "enrolled", ""),
     enrollment_date |-> Column("DateTime", TRUE, FALSE, "datetime.now", "")]

\* class Enrollment
EnrollmentColumns ==
    [id              |-> Column("Integer", FALSE, TRUE, "autoincrement", ""),
     student_id      |-> Column("String", TRUE, FALSE, "", "user"),
     course_id       |-> Column("Integer", TRUE, FALSE, "", "user"),
     status          |-> Column("Enum", FALSE, FALSE, "pending", ""),
     enrollment_date |-> Column("DateTime", TRUE, FALSE, "datetime.now", "")]

\* db.Enum('enrolled', 'cancelled', 'pending')
StatusValues == {"enrolled", "cancelled", "pending"}

\* class Exam
ExamColumns ==
    [id               |-> Column("Integer", FALSE, TRUE, "autoincrement", ""),
     course_id        |-> Column("Integer", TRUE, FALSE, "", "course"),
     exam_title       |-> Column("String", FALSE, FALSE, "", ""),
     exam_description |-> Column("String", TRUE, FALSE, "", "")]

\* class Question
QuestionColumns ==
    [id            |-> Column("Integer", FALSE, TRUE, "autoincrement", ""),
     exam_id       |-> Column("Integer", TRUE, FALSE, "", "exam"),
     question_text |-> Column("Text", FALSE, FALSE, "", "")]

\* class Answer
AnswerColumns ==
    [id          |-> Column("Integer", FALSE, TRUE, "autoincrement", ""),
     question_id |-> Column("Integer", TRUE, FALSE, "", "question"),
     student_id  |-> Column("String", TRUE, FALSE, "", "user"),
     answer_text |-> Column("Text", FALSE, FALSE, "", "")]

\* class AIEvaluation
AIEvaluationColumns ==
    [id        |-> Column("Integer", FALSE, TRUE, "autoincrement", ""),
     answer_id |-> Column("Integer", TRUE, FALSE, "", "answer"),
     score     |-> Column("Integer", TRUE, FALSE, "", ""),
     feedback  |-> Column("Text", TRUE, FALSE, "", "")]

\* The tables db.Model derives from the classes (table name = class name in
\* snake case).
Schema ==
    [user          |-> UserColumns,
     course        |-> CourseColumns,
     enrollment    |-> EnrollmentColumns,
     exam          |-> ExamColumns,
     question      |-> QuestionColumns,
     answer        |-> AnswerColumns,
     ai_evaluation |-> AIEvaluationColumns]

Tables == DOMAIN Schema

----------------------------------------------------------------------------
(* The storage layer's treatment of one INSERT or UPDATE.  Statements are  *)
(* issued against the tables; the column defaults are applied to them.     *)

RECURSIVE Digits(_)
\* The decimal digits of n >= 0, most significant first.
Digits(n) ==
    IF n < 10 THEN <<HexChars[n + 1]>>
    ELSE Digits(n \div 10) \o <<HexChars[(n % 10) + 1]>>

\* An integer as the text the engine compares with a text key.
IntToText(n) == IF n < 0 THEN <<"-">> \o Digits(0 - n) ELSE Digits(n)

\* Values of column c in rows that are not NULL.
ColumnValues(rows, c) == { r[c][1] : r \in { x \in rows : x[c] # NULL } }

\* The id an Integer primary key gets when the statement gives none.
NextRowId(rows) ==
    IF rows = {} THEN 1
    ELSE 1 + CHOOSE m \in ColumnValues(rows, "id") :
                 \A k \in ColumnValues(rows, "id") : k <= m

\* The value of a column the statement does not give.
DefaultValue(t, c, digits, tm, rows) ==
    LET d == Schema[t][c].default
    IN  CASE d = "" -> NULL
          [] d = "generate_uuid4_last12" -> <<generate_uuid4_last12(digits)>>
          [] d = "datetime.now" -> <<tm>>
          [] d = "autoincrement" -> <<NextRowId(rows)>>
          [] OTHER -> <<d>>

\* The row an INSERT of the given columns writes.
WithDefaults(t, given, digits, tm, rows) ==
    [c \in DOMAIN Schema[t] |->
        IF c \in DOMAIN given THEN given[c]
        ELSE DefaultValue(t, c, digits, tm, rows)]

\* The parent key a foreign-key value is matched against: an Integer child
\* value is compared with a String parent key as its decimal text.
FkKey(t, c, v) ==
    IF Schema[t][c].type = "Integer" /\ Schema[Schema[t][c].fk].id.type = "String"
    THEN IntToText(v)
    ELSE v

NotNullViolated(t, row) ==
    \E c \in DOMAIN Schema[t] : ~Schema[t][c].nullable /\ row[c] = NULL

EnumViolated(t, row) ==
    \E c \in DOMAIN Schema[t] :
        /\ Schema[t][c].type = "Enum"
        /\ row[c] # NULL
        /\ row[c][1] \notin StatusValues

UniqueViolated(t, row, others) ==
    \E c \in DOMAIN Schema[t] :
        /\ Schema[t][c].unique
        /\ row[c] # NULL
        /\ \E o \in others : o[c] = row[c]

ForeignKeyViolated(t, row, store) ==
    \E c \in DOMAIN Schema[t] :
        /\ Schema[t][c].fk # ""
        /\ row[c] # NULL
        /\ \A p \in store[Schema[t][c].fk] : p.id # <<FkKey(t, c, row[c][1])>>

\* Mutant of Outcome: the engine also refuses a score outside 0..2.
OutcomeScoreChecked(t, row, others, store, fkOn, enumOn) ==
    IF NotNullViolated(t, row) THEN "IntegrityError: NOT NULL"
    ELSE IF enumOn /\ EnumViolated(t, row) THEN "IntegrityError: CHECK"
    ELSE IF t = "ai_evaluation" /\ row.score # NULL /\ row.score[1] \notin 0..2
         THEN "IntegrityError: CHECK"
    ELSE IF UniqueViolated(t, row, others) THEN "IntegrityError: UNIQUE"
    ELSE IF fkOn /\ ForeignKeyViolated(t, row, store)
         THEN "IntegrityError: FOREIGN KEY"
    ELSE "ok"

\* What the engine reports for writing `row` next to `others`: "ok" or the
\* constraint that refuses it.  Foreign keys are checked only by an engine
\* set to enforce them (fkOn).  db.Enum is declared without validate_strings
\* and without create_constraint, so a value outside its names is refused
\* only where the engine itself checks the column (enumOn: a native ENUM
\* type or a CHECK constraint) and is stored where the column is a plain
\* VARCHAR.
Outcome(t, row, others, store, fkOn, enumOn) ==
    IF NotNullViolated(t, row) THEN "IntegrityError: NOT NULL"
    ELSE IF enumOn /\ EnumViolated(t, row) THEN "IntegrityError: CHECK"
    ELSE IF UniqueViolated(t, row, others) THEN "IntegrityError: UNIQUE"
    ELSE IF fkOn /\ ForeignKeyViolated(t, row, store)
         THEN "IntegrityError: FOREIGN KEY"
    ELSE "ok"

\* Reading a row back by primary key, through the column types' result
\* processing: db.Enum refuses a stored value that is not one of its names.
ReadBack(t, pk, store) ==
    LET hit == { r \in store[t] : r.id = pk }
    IN  IF hit = {} THEN [status |-> "not found"]
        ELSE LET r == CHOOSE x \in hit : TRUE
             IN  IF EnumViolated(t, r) THEN [status |-> "LookupError"]
                 ELSE [status |-> "ok", row |-> r]

\* Some row of another table names the parent key `pk` of table t.
Referenced(t, pk, store) ==
    \E t2 \in Tables : \E c \in DOMAIN Schema[t2] :
        /\ Schema[t2][c].fk = t
        /\ \E r \in store[t2] : r[c] # NULL /\ <<FkKey(t2, c, r[c][1])>> = pk

----------------------------------------------------------------------------
(* The relationship() declarations and their configuration.                *)

ClassTable ==
    [User |-> "user", Course |-> "course", Enrollment |-> "enrollment",
     Exam |-> "exam", Question |-> "question", Answer |-> "answer",
     AIEvaluation |-> "ai_evaluation"]

Relationship(cls, name, target, backref) ==
    [cls |-> cls, name |-> name, target |-> target, backref |-> backref]

\* The relationship() declarations, in the order the classes declare them.
Relationships ==
    << Relationship("Course", "teacher", "User", "courses"),
       Relationship("Enrollment", "student", "User", "courses"),
       Relationship("Enrollment", "course", "Course", "courses"),
       Relationship("Exam", "course", "Course", "exams"),
       Relationship("Question", "exam", "Exam", "questions"),
       Relationship("Answer", "question", "Question", "answers"),
       Relationship("Answer", "student", "User", "answers"),
       Relationship("AIEvaluation", "answer", "Answer", "evaluations") >>

\* The attributes each class declares itself: its columns and relationships.
DeclaredProperties ==
    [cls \in DOMAIN ClassTable |->
        DOMAIN Schema[ClassTable[cls]] \cup
        { Relationships[i].name :
            i \in { k \in 1..Len(Relationships) : Relationships[k].cls = cls } }]

\* The foreign-key columns linking the tables of a relationship's two
\* classes, from which its join condition is taken.
JoinColumns(rel) ==
    LET child == ClassTable[rel.cls]
        parent == ClassTable[rel.target]
    IN  { <<child, c>> : c \in { x \in DOMAIN Schema[child] : Schema[child][x].fk = parent } }
        \cup
        { <<parent, c>> : c \in { x \in DOMAIN Schema[parent] : Schema[parent][x].fk = child } }

Unconfigured == [state |-> "unconfigured"]

RECURSIVE Configure(_, _, _)
\* Configuring relationships i, i+1, ... given the properties the classes
\* have so far and the relationships resolved so far: each relationship needs
\* exactly one foreign-key path for its join condition and a backref name its
\* target does not have yet; the first that has not stops the configuration.
Configure(i, props, resolved) ==
    IF i > Len(Relationships)
    THEN [state |-> "configured", resolved |-> resolved, props |-> props]
    ELSE LET rel == Relationships[i]
             joins == JoinColumns(rel)
         IN  IF joins = {}
             THEN [state |-> "failed", error |-> "NoForeignKeysError",
                   at |-> <<rel.cls, rel.name>>]
             ELSE IF Cardinality(joins) > 1
             THEN [state |-> "failed", error |-> "AmbiguousForeignKeysError",
                   at |-> <<rel.cls, rel.name>>]
             ELSE IF rel.backref \in props[rel.target]
             THEN [state |-> "failed", error |-> "ArgumentError",
                   at |-> <<rel.cls, rel.name>>]
             ELSE Configure(
                      i + 1,
                      [props EXCEPT ![rel.target] = @ \cup {rel.backref}],
                      resolved \cup
                          {[cls |-> rel.cls, name |-> rel.name, target |-> rel.target,
                            backref |-> rel.backref,
                            column |-> (CHOOSE j \in joins : TRUE)[2]]})

\* The children a parent's reverse collection `name` yields, once the
\* relationships are configured.
ReverseCollection(cls, name, parent, m, store) ==
    IF m.state # "configured" THEN {}
    ELSE UNION { { r \in store[ClassTable[l.cls]] : r[l.column] = parent.id } :
                   l \in { x \in m.resolved : x.target = cls /\ x.backref = name } }

----------------------------------------------------------------------------
(* State and operations.                                                   *)

\* Rows a table may hold, and the latest time, in the model.
MaxRows == 2
MaxTime == 1

Callers == {"c1", "c2"}

callerVars == <<phase, req, res, concurrent, mapper>>

vars == <<uuidHex, lastId, db, now, enforceFK, enumChecked, last,
          phase, req, res, concurrent, mapper>>

NoStatement == [op |-> "none"]

Init ==
    /\ uuidHex = NoText
    /\ lastId = NoText
    /\ db = [t \in Tables |-> {}]
    /\ now = 0
    /\ enforceFK \in BOOLEAN
    /\ enumChecked \in BOOLEAN
    /\ last = NoStatement
    /\ phase = [c \in Callers |-> "idle"]
    /\ req = [c \in Callers |-> NoStatement]
    /\ res = [c \in Callers |-> NoStatement]
    /\ concurrent = FALSE
    /\ mapper = Unconfigured

\* generate_uuid4_last12() called on its own.
Generate(digits) ==
    /\ uuidHex' = digits
    /\ lastId' = generate_uuid4_last12(digits)
    /\ UNCHANGED <<db, now, enforceFK, enumChecked, last>>
    /\ UNCHANGED callerVars

\* Time passes.
Tick ==
    /\ now < MaxTime
    /\ now' = now + 1
    /\ UNCHANGED <<uuidHex, lastId, db, enforceFK, enumChecked, last>>
    /\ UNCHANGED callerVars

\* INSERT of the given columns into table t; `digits` is the value uuid4()
\* draws if the id default is called.
Insert(t, given, digits) ==
    LET row == WithDefaults(t, given, digits, now, db[t])
        out == Outcome(t, row, db[t], db, enforceFK, enumChecked)
    IN  /\ out = "ok" => Cardinality(db[t]) < MaxRows
        /\ db' = IF out = "ok" THEN [db EXCEPT ![t] = @ \cup {row}] ELSE db
        /\ last' = [op |-> "insert", table |-> t, key |-> row.id,
                    given |-> given, row |-> row, outcome |-> out]
        /\ UNCHANGED <<uuidHex, lastId, now, enforceFK, enumChecked>>

\* UPDATE of the row of table t with primary key pk, setting `changes`.
Update(t, pk, changes) ==
    \E old \in db[t] :
        /\ old.id = pk
        /\ LET row == [c \in DOMAIN Schema[t] |->
                          IF c \in DOMAIN changes THEN changes[c] ELSE old[c]]
               base == Outcome(t, row, db[t] \ {old}, db, enforceFK, enumChecked)
               out == IF base = "ok" /\ enforceFK /\ row.id # old.id
                         /\ Referenced(t, old.id, db)
                      THEN "IntegrityError: FOREIGN KEY"
                      ELSE base
           IN  /\ db' = IF out = "ok"
                        THEN [db EXCEPT ![t] = (@ \ {old}) \cup {row}]
                        ELSE db
               /\ last' = [op |-> "update", table |-> t, key |-> pk,
                           given |-> changes, row |-> row, outcome |-> out]
        /\ UNCHANGED <<uuidHex, lastId, now, enforceFK, enumChecked>>

----------------------------------------------------------------------------
(* The statements callers issue, drawn from small sets of values.          *)

Restrict(f, cols) == [c \in cols |-> f[c]]

\* The random values the id default draws from in the storage models.
MaxSeeds == 2
IdSeeds == { Uuid4(a, 0) : a \in 1..MaxSeeds }

UserValues ==
    [id            : {<<(<<"1">>)>>},
     user_name     : {<<"alice">>, <<"bob">>},
     first_name    : {<<"Alice">>},
     email         : {<<"alice@x.com">>, <<"other@x.com">>},
     password_hash : {<<"h1">>}]

UserColumnSets ==
    { {"user_name", "email", "password_hash"} \cup X :
        X \in SUBSET {"id", "first_name"} }

UserInputs == { Restrict(f, D) : f \in UserValues, D \in UserColumnSets }

UserChanges ==
    { Restrict(f, D) : f \in UserValues, D \in {{"user_name"}, {"email"}, {"id"}} }

\* INSERT INTO user
InsertUser ==
    /\ \E given \in UserInputs, digits \in IdSeeds : Insert("user", given, digits)
    /\ UNCHANGED callerVars

\* UPDATE user
UpdateUser ==
    /\ \E old \in db["user"], changes \in UserChanges :
           Update("user", old.id, changes)
    /\ UNCHANGED callerVars

GenerateId == \E digits \in Uuid4Values : Generate(digits)

NextUuid == GenerateId

SpecUuid == Init /\ [][NextUuid]_vars

NextUser == InsertUser \/ UpdateUser

\* The user table has no foreign key and no Enum column: the engine's two
\* settings make no difference to it and are held fixed.
InitUsers == Init /\ enforceFK /\ enumChecked

SpecUser == InitUsers /\ [][NextUser]_vars

----------------------------------------------------------------------------
(* Two callers creating Users at the same time.  Each caller builds its    *)
(* User and issues the INSERT; the storage layer executes the INSERTs one  *)
(* at a time, in either order.                                             *)

RaceColumnSets ==
    { {"user_name", "email", "password_hash", "first_name"},
      {"user_name", "email", "password_hash", "first_name", "id"},
      {"user_name", "email", "password_hash"} }

RaceInputs == { Restrict(f, D) : f \in UserValues, D \in RaceColumnSets }

Submit(c, given) ==
    /\ phase[c] = "idle"
    /\ phase' = [phase EXCEPT ![c] = "pending"]
    /\ req' = [req EXCEPT ![c] = given]
    /\ concurrent' = (concurrent \/ \E o \in Callers \ {c} : phase[o] = "pending")
    /\ UNCHANGED <<uuidHex, lastId, db, now, enforceFK, enumChecked, last, res, mapper>>

Execute(c, digits) ==
    /\ phase[c] = "pending"
    /\ Insert("user", req[c], digits)
    /\ phase' = [phase EXCEPT ![c] = "done"]
    /\ res' = [res EXCEPT ![c] = [outcome |-> last'.outcome, row |-> last'.row]]
    /\ UNCHANGED <<req, concurrent, mapper>>

\* Both callers have their answers and start over.
Return ==
    /\ \A c \in Callers : phase[c] # "pending"
    /\ \E c \in Callers : phase[c] = "done"
    /\ phase' = [c \in Callers |-> "idle"]
    /\ req' = [c \in Callers |-> NoStatement]
    /\ res' = [c \in Callers |-> NoStatement]
    /\ concurrent' = FALSE
    /\ UNCHANGED <<uuidHex, lastId, db, now, enforceFK, enumChecked, last, mapper>>

SubmitUser == \E c \in Callers, given \in RaceInputs : Submit(c, given)

ExecuteUser == \E c \in Callers, digits \in IdSeeds : Execute(c, digits)

NextRace == SubmitUser \/ ExecuteUser \/ Return

SpecRace == InitUsers /\ [][NextRace]_vars

----------------------------------------------------------------------------
(* Enrollments: defaults and the status Enum.                              *)

\* A date a caller gives explicitly: before every time datetime.now() returns.
EarlierDate == 0 - 1

StudentAlice ==
    [id |-> <<(<<"1">>)>>, user_name |-> <<"alice">>, first_name |-> <<"Alice">>,
     email |-> <<"alice@x.com">>, password_hash |-> <<"h1">>]

EnrollmentInputs ==
    { [x \in {} |-> NULL],
      [status |-> <<"enrolled">>, enrollment_date |-> <<EarlierDate>>],
      [status |-> <<"invalid_value">>],
      [status |-> NULL],
      [enrollment_date |-> NULL] }

EnrollmentChanges ==
    { [status |-> <<"enrolled">>], [status |-> <<"invalid_value">>] }

\* INSERT INTO enrollment
InsertEnrollment ==
    /\ \E given \in EnrollmentInputs :
           Insert("enrollment", given, NoText)
    /\ UNCHANGED callerVars

\* UPDATE enrollment
UpdateEnrollment ==
    /\ \E old \in db["enrollment"], changes \in EnrollmentChanges :
           Update("enrollment", old.id, changes)
    /\ UNCHANGED callerVars

NextEnroll == InsertEnrollment \/ UpdateEnrollment \/ Tick

SpecEnroll == Init /\ [][NextEnroll]_vars

----------------------------------------------------------------------------
(* Enrollments: the foreign keys.                                          *)

StudentInputs ==
    { StudentAlice,
      [id |-> <<(<<"0", "2">>)>>, user_name |-> <<"bob">>, first_name |-> <<"Bob">>,
       email |-> <<"bob@x.com">>, password_hash |-> <<"h2">>],
      [user_name |-> <<"carol">>, first_name |-> <<"Carol">>,
       email |-> <<"carol@x.com">>, password_hash |-> <<"h3">>] }

CourseInputs ==
    { [course_name |-> <<"Algebra">>],
      [course_name |-> <<"Biology">>, teacher_id |-> <<(<<"1">>)>>] }

EnrollmentFkInputs ==
    { [course_id |-> <<1>>],
      [course_id |-> <<2>>],
      [course_id |-> <<1>>, student_id |-> <<(<<"0", "2">>)>>],
      [student_id |-> <<(<<"1">>)>>] }

InsertAnyStudent ==
    /\ \E given \in StudentInputs, digits \in IdSeeds : Insert("user", given, digits)
    /\ UNCHANGED callerVars

\* INSERT INTO course
InsertCourse ==
    /\ \E given \in CourseInputs : Insert("course", given, NoText)
    /\ UNCHANGED callerVars

InsertEnrollmentFk ==
    /\ \E given \in EnrollmentFkInputs :
           Insert("enrollment", given, NoText)
    /\ UNCHANGED callerVars

NextFk == InsertAnyStudent \/ InsertCourse \/ InsertEnrollmentFk

\* No statement of this model writes an Enum value the engine could refuse.
InitFk == Init /\ enumChecked

SpecFk == InitFk /\ [][NextFk]_vars

----------------------------------------------------------------------------
(* Exams, questions, answers and their evaluations.                        *)

ExamInputs == { [exam_title |-> <<"Midterm">>] }

QuestionInputs == { [exam_id |-> <<1>>, question_text |-> <<"Why?">>] }

AnswerInputs == { [question_id |-> <<1>>, answer_text |-> <<"Because.">>] }

\* The scores callers give: inside and outside the documented 0..2.
Scores == {0 - 1, 0, 5}

AIEvaluationInputs ==
    { [answer_id |-> <<1>>, score |-> <<sc>>, feedback |-> <<"ok">>] : sc \in Scores }
    \cup { [answer_id |-> <<2>>, score |-> <<5>>] }

InsertExam ==
    /\ \E given \in ExamInputs : Insert("exam", given, NoText)
    /\ UNCHANGED callerVars

InsertQuestion ==
    /\ \E given \in QuestionInputs : Insert("question", given, NoText)
    /\ UNCHANGED callerVars

InsertAnswer ==
    /\ \E given \in AnswerInputs : Insert("answer", given, NoText)
    /\ UNCHANGED callerVars

\* INSERT INTO ai_evaluation
InsertAIEvaluation ==
    /\ \E given \in AIEvaluationInputs :
           Insert("ai_evaluation", given, NoText)
    /\ UNCHANGED callerVars

NextEval == InsertExam \/ InsertQuestion \/ InsertAnswer \/ InsertAIEvaluation

SpecEval == InitFk /\ [][NextEval]_vars

----------------------------------------------------------------------------
(* First use of the mapped classes, next to statements on the tables.      *)

\* configure_mappers(): runs once, when a mapped class is first used.
ConfigureMappers ==
    /\ mapper.state = "unconfigured"
    /\ mapper' = Configure(1, DeclaredProperties, {})
    /\ UNCHANGED <<uuidHex, lastId, db, now, enforceFK, enumChecked, last,
                   phase, req, res, concurrent>>

NextMapper == ConfigureMappers \/ InsertAnyStudent \/ InsertCourse \/ InsertEnrollmentFk

SpecMapper == InitFk /\ [][NextMapper]_vars

----------------------------------------------------------------------------
(* Properties.                                                             *)

HexCharSet == { HexChars[i] : i \in 1..Len(HexChars) }

Generated == uuidHex # NoText

\* C4: for every UUID in canonical 8-4-4-4-12 text form,
\* generate_uuid4_last12 returns exactly the last 12 characters of the text,
\* 12 characters long, every one a hex digit and none a hyphen.
C4_Last12HexDigits ==
    Generated =>
        LET text == UuidStr(uuidHex)
        IN  /\ Len(text) = 36
            /\ \A i \in 1..36 : (text[i] = "-") <=> (i \in {9, 14, 19, 24})
            /\ Len(lastId) = 12
            /\ \A i \in 1..12 : lastId[i] = text[24 + i]
            /\ \A i \in 1..12 : lastId[i] \in HexCharSet /\ lastId[i] # "-"

\* An id was generated from a UUID whose tail mixes digits and letters.
C4_Witness ==
    /\ Generated
    /\ Len(lastId) = 12
    /\ \E i, j \in 1..12 : lastId[i] = "f" /\ lastId[j] = "3"

\* C1: after any sequence of User inserts and updates, accepted or refused,
\* no two stored Users share a user_name, an email or an id.
C1_UsersUnique ==
    \A u, v \in db["user"] :
        u # v => /\ u.user_name # v.user_name
                 /\ u.email # v.email
                 /\ u.id # v.id

\* Two Users are stored and an update that would have duplicated a unique
\* value has just been refused.
C1_Witness ==
    /\ Cardinality(db["user"]) = 2
    /\ last.op = "update"
    /\ last.outcome = "IntegrityError: UNIQUE"

RequiredGiven(given) ==
    {"user_name", "email", "first_name", "password_hash"} \subseteq DOMAIN given

SharesNameOrEmail(row, rows) ==
    \E u \in rows : u.user_name = row.user_name \/ u.email = row.email

SharesId(row, rows) == \E u \in rows : u.id = row.id

UserInsertStep ==
    /\ last'.op = "insert"
    /\ last'.table = "user"
    /\ RequiredGiven(last'.given)

\* C2 as claimed: creating a User whose user_name or email is already stored
\* fails with a uniqueness violation and leaves the store unchanged; creating
\* a User whose user_name and email both differ from every stored User
\* succeeds.
C2_AsClaimed ==
    [][UserInsertStep =>
          IF SharesNameOrEmail(last'.row, db["user"])
          THEN last'.outcome = "IntegrityError: UNIQUE" /\ db' = db
          ELSE last'.outcome = "ok" /\ db'["user"] = db["user"] \cup {last'.row}
      ]_vars

\* C2 amended: creating a User (required fields given) whose user_name or
\* email is already stored fails with a uniqueness violation and leaves the
\* store unchanged; so does one whose id is already stored; one whose
\* user_name, email and id all differ from every stored User succeeds.
C2_DuplicateRefused ==
    [][UserInsertStep =>
          IF SharesNameOrEmail(last'.row, db["user"]) \/ SharesId(last'.row, db["user"])
          THEN last'.outcome = "IntegrityError: UNIQUE" /\ db' = db
          ELSE last'.outcome = "ok" /\ db'["user"] = db["user"] \cup {last'.row}
      ]_vars

\* A User with a stored user_name or email but a fresh id has been refused,
\* and the stored record is as it was.
C2_Witness ==
    /\ last.op = "insert"
    /\ RequiredGiven(last.given)
    /\ last.outcome = "IntegrityError: UNIQUE"
    /\ ~SharesId(last.row, db["user"])
    /\ SharesNameOrEmail(last.row, db["user"])
    /\ last.row \notin db["user"]

BothDone == \A c \in Callers : phase[c] = "done"

Accepted(c) == res[c].outcome = "ok"

ConstraintViolations ==
    {"IntegrityError: NOT NULL", "IntegrityError: CHECK",
     "IntegrityError: UNIQUE", "IntegrityError: FOREIGN KEY"}

\* The two callers' Users carry the same user_name, email or id.
SameUniqueValue ==
    \E col \in {"user_name", "email", "id"} : res["c1"].row[col] = res["c2"].row[col]

\* Both callers gave the required fields, created Users carrying the same
\* unique value at overlapping times, and have their answers.
RaceOver ==
    /\ concurrent
    /\ BothDone
    /\ \A c \in Callers : RequiredGiven(req[c])
    /\ SameUniqueValue

\* The user table as it stood before the two creations.
StoredBefore == db["user"] \ { res[c].row : c \in { x \in Callers : Accepted(x) } }

AcceptableAlone(c) ==
    Outcome("user", res[c].row, StoredBefore, db, enforceFK, enumChecked) = "ok"

\* C3 as claimed: when two callers concurrently create Users carrying the
\* same unique value, exactly one creation succeeds and the other fails with
\* a constraint violation, under every interleaving.
C3_AsClaimed ==
    RaceOver =>
        \E c \in Callers :
            /\ Accepted(c)
            /\ \A o \in Callers \ {c} : res[o].outcome \in ConstraintViolations

\* C3 amended: under every interleaving at most one of the two creations
\* succeeds and a creation that does not succeed fails with a constraint
\* violation; exactly one succeeds, the other failing with a uniqueness
\* violation, when each of the two Users alone was acceptable to the store as
\* it stood before them.
C3_AtMostOneCreated ==
    RaceOver =>
        /\ ~(\A c \in Callers : Accepted(c))
        /\ \A c \in Callers : ~Accepted(c) => res[c].outcome \in ConstraintViolations
        /\ (\A c \in Callers : AcceptableAlone(c)) =>
               \E c \in Callers :
                   /\ Accepted(c)
                   /\ \A o \in Callers \ {c} : res[o].outcome = "IntegrityError: UNIQUE"

\* Two overlapping creations with the same unique value, each acceptable
\* alone, next to a User stored earlier: one was accepted, one refused.
C3_Witness ==
    /\ RaceOver
    /\ StoredBefore # {}
    /\ \A c \in Callers : AcceptableAlone(c)
    /\ \E c \in Callers : Accepted(c)
    /\ \E c \in Callers : ~Accepted(c)

EnrollmentCreated ==
    /\ last'.op = "insert"
    /\ last'.table = "enrollment"
    /\ last'.outcome = "ok"
    /\ db'["enrollment"] # db["enrollment"]

\* C5: an Enrollment created without a status and without an enrollment_date
\* is stored with status "pending" and enrollment_date equal to the creation
\* time; a status or enrollment_date the caller gives is stored as given.
C5_EnrollmentDefaults ==
    [][EnrollmentCreated =>
          LET given == last'.given
              stored == { e \in db'["enrollment"] : e.id = last'.key }
          IN  /\ stored # {}
              /\ \A e \in stored :
                     /\ e \notin db["enrollment"]
                     /\ IF "status" \in DOMAIN given
                        THEN e.status = given.status
                        ELSE e.status = <<"pending">>
                     /\ IF "enrollment_date" \in DOMAIN given
                        THEN e.enrollment_date = given.enrollment_date
                        ELSE e.enrollment_date = <<now>>
      ]_vars

\* One Enrollment created late with neither field given, one with both given.
C5_Witness ==
    /\ now > 0
    /\ last.op = "insert" /\ last.table = "enrollment" /\ last.outcome = "ok"
    /\ DOMAIN last.given = {}
    /\ last.row.status = <<"pending">> /\ last.row.enrollment_date = <<now>>
    /\ last.row \in db["enrollment"]
    /\ \E e \in db["enrollment"] :
           e.status = <<"enrolled">> /\ e.enrollment_date = <<EarlierDate>>

GivesBadStatus(given) ==
    /\ "status" \in DOMAIN given
    /\ given.status # NULL
    /\ given.status[1] \notin StatusValues

\* C6: creating or updating an Enrollment with a status outside
\* {"enrolled", "cancelled", "pending"} fails, and every stored Enrollment's
\* status is one of the three values.
C6_StatusEnumerated ==
    /\ \A e \in db["enrollment"] : e.status # NULL /\ e.status[1] \in StatusValues
    /\ (last.op # "none" /\ last.table = "enrollment" /\ GivesBadStatus(last.given))
           => last.outcome # "ok"

\* C7: creating an AIEvaluation with a valid answer_id and an integer score,
\* inside or outside 0..2, is not rejected: the record is stored with that
\* score.
C7_ScoreNotChecked ==
    (/\ last.op = "insert" /\ last.table = "ai_evaluation"
     /\ {"answer_id", "score"} \subseteq DOMAIN last.given
     /\ \E a \in db["answer"] : a.id = last.given.answer_id)
    => /\ last.outcome = "ok"
       /\ \E e \in db["ai_evaluation"] :
              /\ e.id = last.key
              /\ e.score = last.given.score
              /\ e.answer_id = last.given.answer_id

\* An evaluation of a stored answer is stored with score 5, under an engine
\* that enforces foreign keys.
C7_Witness ==
    /\ enforceFK
    /\ last.op = "insert" /\ last.table = "ai_evaluation" /\ last.outcome = "ok"
    /\ \E e \in db["ai_evaluation"] :
           /\ e.score = <<5>>
           /\ e.id = last.key
           /\ \E a \in db["answer"] : a.id = e.answer_id

\* C8: a record written successfully reads back by primary key with the
\* fields the caller gave unchanged, the defaulted fields populated and the
\* other fields unset.
C8_RoundTrip ==
    (last.op = "insert" /\ last.outcome = "ok") =>
        LET t == last.table
            back == ReadBack(t, last.key, db)
        IN  /\ back.status = "ok"
            /\ \A c \in DOMAIN Schema[t] :
                   IF c \in DOMAIN last.given THEN back.row[c] = last.given[c]
                   ELSE IF Schema[t][c].default # "" THEN back.row[c] # NULL
                   ELSE back.row[c] = NULL

\* The decimal text of the course_id values the callers give.
CourseIdText(n) == IF n = 1 THEN <<"1">> ELSE <<"2">>

EnrollmentWithCourseId ==
    /\ enforceFK
    /\ last.op = "insert" /\ last.table = "enrollment"
    /\ "course_id" \in DOMAIN last.given

C10_NavigationResolved ==
    mapper.state # "unconfigured" =>
        /\ mapper.state = "configured"
        /\ \A i \in 1..Len(Relationships) : Cardinality(JoinColumns(Relationships[i])) = 1
        /\ \A u \in db["user"] :
               ReverseCollection("User", "courses", u, mapper, db)
                   = { k \in db["course"] : k.teacher_id = u.id }

====
